---- MODULE Spec2Model ----
(***************************************************************************)
(* Model of the lpt-event backend: the application lifespan (validate_db,  *)
(* initialize_models), the event CRUD route handlers over the events       *)
(* table, and the SPA fallback rule of the HTTP exception handler.         *)
(*                                                                         *)
(* Text that the code inspects character by character (request paths, the  *)
(* Accept header) is a sequence of one-character strings.                  *)
(***************************************************************************)
EXTENDS Integers, Sequences, FiniteSets, TLC

VARIABLES
    instance_name,   \* conf.db.instance_name
    instanceExists,  \* the workspace has a database instance of that name
    engine_url,      \* Runtime.engine_url (cached_property): "unset" until computed
    phase,           \* position of lifespan
    startupExc,      \* exception that escaped lifespan ("none" if none)
    initCalled,      \* initialize_models has been entered
    db,              \* the events table: id -> row
    seq,             \* last value handed out by the id sequence
    req,             \* the request handled last
    resp,            \* the response to it
    pre,             \* the events table as it was when that request arrived
    deleted,         \* ids whose delete_event succeeded and that were not created again
    created,         \* id -> payload of its create_event, while no update or delete touched it
    nreq,            \* number of requests handled
    credCalls,       \* number of generate_database_credential calls made so far
    attempts,        \* the connection attempts made so far, oldest first
    tryExc,          \* exception raised inside the try block of validate_db ("none" if none)
    initPre,         \* the events table when initialize_models was last entered
    ninit,           \* number of calls of initialize_models
    script,          \* the component that runs and the position it has reached
    calls            \* the external calls the component has made, oldest first

vars == <<instance_name, instanceExists, engine_url, phase, startupExc,
          initCalled, db, seq, req, resp, pre, deleted, created, nreq,
          credCalls, attempts, tryExc, initPre, ninit, script, calls>>

\* The run of a component and its external calls
ScriptVars == <<script, calls>>

\* No component is followed
NoScript == [component |-> "none", pc |-> 0, status |-> "returned", ntables |-> 0]

\* What is recorded of the calls of initialize_models
InitVars == <<initPre, ninit>>

\* The state of the database connections
ConnVars == <<credCalls, attempts, tryExc>>

-----------------------------------------------------------------------------
(* Bounds *)

MaxRequests == 2
MaxEventId == 4
MaxPathLen == 6

-----------------------------------------------------------------------------
(* Text helpers *)

startswith(s, p) ==
    /\ Len(s) >= Len(p)
    /\ SubSeq(s, 1, Len(p)) = p

contains(s, sub) ==
    \E i \in 0..(Len(s) - Len(sub)) : SubSeq(s, i + 1, i + Len(sub)) = sub

\* path.split("/")[-1]: what follows the last "/" (the whole text if there is none)
LastSegment(s) ==
    LET slashes == {i \in 1..Len(s) : s[i] = "/"}
        from == IF slashes = {} THEN 0
                ELSE CHOOSE i \in slashes : \A j \in slashes : j <= i
    IN  SubSeq(s, from + 1, Len(s))

Digit(n) == <<"0", "1", "2", "3", "4", "5", "6", "7", "8", "9">>[n + 1]

\* str(n) for a small natural number
IntText(n) == IF n < 10 THEN <<Digit(n)>> ELSE <<Digit(n \div 10), Digit(n % 10)>>

-----------------------------------------------------------------------------
(* Configuration *)

api_prefix == <<"/", "a", "p", "i">>

TextHtml == <<"t", "e", "x", "t", "/", "h", "t", "m", "l">>
AppJson == <<"a", "p", "p", "l", "i", "c", "a", "t", "i", "o", "n", "/", "j", "s", "o", "n">>

IndexHtml == "__dist__/index.html"

-----------------------------------------------------------------------------
(* utils.py: the HTTP exception handler *)

\* A response; its body is a record (JSON object, or the file or text sent)
NoResp == [kind |-> "none", status |-> 0, body |-> [text |-> ""], committed |-> FALSE]

JSONResponse(content, status_code) ==
    [kind |-> "json", status |-> status_code, body |-> content, committed |-> FALSE]

FileResponse(path) ==
    [kind |-> "file", status |-> 200, body |-> [file |-> path], committed |-> FALSE]

\* request.headers.get(name, default)
HeaderGet(headers, name, default) ==
    IF name \in DOMAIN headers THEN headers[name] ELSE default

\* Variant: the path is compared with the prefix for equality
is_api_exact(path) == path = api_prefix

is_api(path) == startswith(path, api_prefix)

is_get_page_nav(method, accept) == method = "GET" /\ contains(accept, TextHtml)

\* Variant: a dot anywhere in the path counts
looks_like_asset_anywhere(path) == contains(path, <<".">>)

\* Variant: the first segment is inspected (split("/")[0]) instead of the last
looks_like_asset_first(path) ==
    LET slashes == {i \in 1..Len(path) : path[i] = "/"}
        to == IF slashes = {} THEN Len(path)
              ELSE (CHOOSE i \in slashes : \A j \in slashes : i <= j) - 1
    IN  contains(SubSeq(path, 1, to), <<".">>)

looks_like_asset(path) == contains(LastSegment(path), <<".">>)

http_exception_handler(request, exc) ==
    LET path == request.path
        accept == HeaderGet(request.headers, "accept", <<>>)
    IN  IF /\ exc.status_code = 404
           /\ ~is_api(path)
           /\ is_get_page_nav(request.method, accept)
           /\ ~looks_like_asset(path)
        THEN FileResponse(IndexHtml)
        ELSE JSONResponse([detail |-> exc.detail], exc.status_code)

HTTPException(status_code, detail) == [status_code |-> status_code, detail |-> detail]

-----------------------------------------------------------------------------
(* models.py: events *)

\* A Python attribute that may hold None
None == [some |-> FALSE]
Some(v) == [some |-> TRUE, v |-> v]

Fields == {"title", "short_description", "detailed_description", "city",
           "days_of_week", "cost_usd", "picture_url"}

\* Columns of the events table declared with a non-Optional type and no
\* sa_column are NOT NULL; days_of_week is Column(JSON), which is nullable.
NotNull == Fields \ {"days_of_week"}

\* A URL text, by its parts: scheme "://" host path
Url(scheme, host, path) == [scheme |-> scheme, host |-> host, path |-> path]

Lower(s) ==
    CASE s = "Example.COM" -> "example.com"
      [] s = "HTTP" -> "http"
      [] OTHER -> s

\* pydantic HttpUrl: accepts http and https URLs with a host
HttpUrlValid(raw) == Lower(raw.scheme) \in {"http", "https"} /\ raw.host # ""

\* str(HttpUrl(raw)): scheme and host in lower case, an empty path becomes "/"
HttpUrlStr(raw) ==
    Url(Lower(raw.scheme), Lower(raw.host), IF raw.path = "" THEN "/" ELSE raw.path)

\* Event(**kwargs): a row object; every attribute can hold None
Event(title, short_description, detailed_description, city, days_of_week, cost_usd, picture_url) ==
    [title |-> Some(title),
     short_description |-> Some(short_description),
     detailed_description |-> Some(detailed_description),
     city |-> Some(city),
     days_of_week |-> Some(days_of_week),
     cost_usd |-> Some(cost_usd),
     picture_url |-> Some(picture_url)]

\* EventRead.model_validate(event) succeeds iff no attribute is None
EventReadValid(event) == \A f \in Fields : event[f].some

EventRead(id, event) ==
    [id |-> id,
     title |-> event.title.v,
     short_description |-> event.short_description.v,
     detailed_description |-> event.detailed_description.v,
     city |-> event.city.v,
     days_of_week |-> event.days_of_week.v,
     cost_usd |-> event.cost_usd.v,
     picture_url |-> event.picture_url.v]

demo_events ==
    << Event("Data & AI Meetup",
             "Monthly community meetup on data and AI.",
             "Join fellow data engineers and scientists for lightning talks, live demos, and networking. Snacks and drinks provided.",
             "San Francisco", <<"Thursday">>, 0,
             Url("https", "images.pexels.com", "/photos/1181567/pexels-photo-1181567.jpeg")),
       Event("Weekend Hackathon",
             "48-hour product hackathon.",
             "Form a team, ship a prototype, and pitch to a panel of judges. Tracks include AI, analytics, and developer tooling.",
             "New York", <<"Saturday", "Sunday">>, 49,
             Url("https", "images.pexels.com", "/photos/1181675/pexels-photo-1181675.jpeg")),
       Event("Analytics Workshop",
             "Hands-on workshop on modern analytics stacks.",
             "A full-day workshop covering ingestion, transformation, and visualization best practices using modern tooling.",
             "London", <<"Wednesday">>, 199,
             Url("https", "images.pexels.com", "/photos/1181673/pexels-photo-1181673.jpeg")) >>

-----------------------------------------------------------------------------
(* runtime.py: Runtime, and app.py: lifespan *)

InstanceNames == {"sqlite-memory", "lpt-db"}

\* The value Runtime.engine_url computes when the workspace knows the instance
EngineUrlFor(name) ==
    IF Lower(name) = "sqlite-memory" THEN "sqlite" ELSE "postgresql+psycopg"

IsSqlite(url) == url = "sqlite"

\* A row left in a Postgres database by an earlier run of the application
EarlierRow ==
    Event("Board Games", "Weekly board game evening.", "Bring your own games.",
          "Lyon", <<"Friday">>, 5, Url("https", "example.com", "/games.png"))

Row(id, event) == [i \in {id} |-> event]

EmptyTable == [i \in {} |-> None]

\* A request, with the HTTPException raised while it was routed or handled (if any)
Request(op, method, path, headers, event_id, payload, exc) ==
    [op |-> op, method |-> method, path |-> path, headers |-> headers,
     event_id |-> event_id, payload |-> payload, exc |-> exc]

NoHeaders == [h \in {} |-> <<>>]

NoReq == Request("none", "", <<>>, NoHeaders, 0, None, None)

Init ==
    /\ instance_name \in InstanceNames
    /\ instanceExists \in (IF IsSqlite(EngineUrlFor(instance_name)) THEN {FALSE} ELSE BOOLEAN)
    /\ engine_url = "unset"
    /\ phase = "start"
    /\ startupExc = "none"
    /\ initCalled = FALSE
    /\ \/ db = EmptyTable /\ seq = 0
       \/ /\ ~IsSqlite(EngineUrlFor(instance_name))
          /\ instanceExists
          /\ db = Row(1, EarlierRow)
          /\ seq = 1
    /\ req = NoReq
    /\ resp = NoResp
    /\ pre = db
    /\ deleted = {}
    /\ created = EmptyTable
    /\ nreq = 0
    /\ credCalls = 0
    /\ attempts = <<>>
    /\ tryExc = "none"
    /\ initPre = EmptyTable
    /\ ninit = 0
    /\ script = NoScript
    /\ calls = <<>>

Unserved == <<db, seq, req, resp, pre, deleted, created, nreq>>

Raise(exc) == phase' = "failed" /\ startupExc' = exc

\* validate_db, its first line: self.engine_url is computed (cached_property).
\* For Postgres the property asks the workspace for the instance, outside any try.
ValidateDbEngineUrl ==
    /\ phase = "start"
    /\ IF IsSqlite(EngineUrlFor(instance_name))
       THEN /\ engine_url' = "sqlite"
            /\ phase' = "validated"
            /\ UNCHANGED startupExc
       ELSE IF instanceExists
       THEN /\ engine_url' = EngineUrlFor(instance_name)
            /\ phase' = "validate_instance"
            /\ UNCHANGED startupExc
       ELSE /\ Raise("NotFound")
            /\ UNCHANGED engine_url
    /\ UNCHANGED <<instance_name, instanceExists, initCalled>>
    /\ UNCHANGED Unserved
    /\ UNCHANGED ConnVars
    /\ UNCHANGED InitVars
    /\ UNCHANGED ScriptVars

\* validate_db: try get_database_instance / except NotFound: raise ValueError
ValidateDbInstance ==
    /\ phase = "validate_instance"
    /\ IF instanceExists
       THEN phase' = "validate_connect" /\ UNCHANGED startupExc
       ELSE Raise("ValueError")
    /\ UNCHANGED <<instance_name, instanceExists, engine_url, initCalled>>
    /\ UNCHANGED Unserved
    /\ UNCHANGED ConnVars
    /\ UNCHANGED InitVars
    /\ UNCHANGED ScriptVars

\* The text Runtime.engine_url builds for Postgres, by its parts:
\* prefix "://" username ":" password "@" host ":" port "/" database
PostgresUrl(username, host) ==
    [prefix |-> "postgresql+psycopg", username |-> username, password |-> "",
     host |-> host, port |-> "5432", database |-> "databricks_postgres"]

\* The URL Runtime.engine_url returns for the in-memory SQLite database
SqliteUrl ==
    [prefix |-> "sqlite", username |-> "", password |-> "",
     host |-> "", port |-> "", database |-> "file::memory:"]

\* The connection parameters the driver is given for a URL: an empty password is left out
ConnectParams(url) ==
    [user |-> url.username, host |-> url.host, port |-> url.port,
     dbname |-> url.database,
     sslmode |-> IF url.prefix = "sqlite" THEN "" ELSE "require",
     password |-> IF url.password = "" THEN None ELSE Some(url.password)]

\* What generate_database_credential can do: return a token or raise
CredentialOutcomes == {"token", "PermissionDenied", "InternalError"}

\* The token the workspace returns to the n-th generate_database_credential call
Token(n) == [issued_by_call |-> n]

\* Variant: the token of the first call is kept and used for every later attempt
before_connect_cached(url_prefix, cparams, outcome, ncalls) ==
    IF url_prefix = "sqlite"
    THEN [cparams |-> cparams, calls |-> 0, raised |-> "none"]
    ELSE IF ncalls > 0
    THEN [cparams |-> [cparams EXCEPT !.password = Some(Token(1))],
          calls |-> 0, raised |-> "none"]
    ELSE IF outcome = "token"
    THEN [cparams |-> [cparams EXCEPT !.password = Some(Token(ncalls + 1))],
          calls |-> 1, raised |-> "none"]
    ELSE [cparams |-> cparams, calls |-> 1, raised |-> outcome]

\* Runtime._before_connect, after ncalls earlier credential calls: what it leaves
\* in cparams, the credential calls it makes, and the exception it lets out
before_connect(url_prefix, cparams, outcome, ncalls) ==
    IF url_prefix = "sqlite"
    THEN [cparams |-> cparams, calls |-> 0, raised |-> "none"]
    ELSE IF outcome = "token"
    THEN [cparams |-> [cparams EXCEPT !.password = Some(Token(ncalls + 1))],
          calls |-> 1, raised |-> "none"]
    ELSE [cparams |-> cparams, calls |-> 1, raised |-> outcome]

\* One connection attempt of an engine: the do_connect callback, then the driver's
\* connect unless the callback raised
Attempt(engine, url, outcome, callback, connect_ok, ncalls) ==
    [engine |-> engine,
     url |-> url,
     credential |-> IF callback.calls = 0 THEN "none" ELSE outcome,
     first_call |-> ncalls + 1,
     calls |-> callback.calls,
     cparams |-> callback.cparams,
     raised |-> IF callback.raised # "none" THEN callback.raised
                ELSE IF connect_ok THEN "none" ELSE "OperationalError",
     opened |-> callback.raised = "none" /\ connect_ok]

\* An engine without a do_connect listener connects with the parameters of its URL
NoListener(cparams) == [cparams |-> cparams, calls |-> 0, raised |-> "none"]

\* The host the workspace reports for the instance (instance.read_write_dns)
read_write_dns == "instance-rw.database.cloud.databricks.com"

\* The engine of the Runtime connects: for Postgres _before_connect is its
\* do_connect listener, for SQLite no listener is registered
RuntimeAttempt(outcome, connect_ok, ncalls) ==
    IF IsSqlite(engine_url)
    THEN Attempt("runtime", SqliteUrl, outcome, NoListener(ConnectParams(SqliteUrl)),
                 connect_ok, ncalls)
    ELSE LET url == PostgresUrl("sp-client-id", read_write_dns)
         IN  Attempt("runtime", url, outcome,
                     before_connect(engine_url, ConnectParams(url), outcome, ncalls),
                     connect_ok, ncalls)

\* Variant: only the driver's OperationalError is turned into ConnectionError
ReraisedOperationalOnly(exc) ==
    IF exc = "OperationalError" THEN "ConnectionError" ELSE exc

\* validate_db: except Exception: raise ConnectionError(...)
Reraised(exc) == "ConnectionError"

\* validate_db: inside try, open a session and execute SELECT 1; the session's
\* connection is a connection attempt of the Runtime's engine.
ValidateDbConnect ==
    /\ phase = "validate_connect"
    /\ \E outcome \in CredentialOutcomes, connect_ok \in BOOLEAN, select_ok \in BOOLEAN :
          LET attempt == RuntimeAttempt(outcome, connect_ok, credCalls)
              exc == IF attempt.raised # "none" THEN attempt.raised
                     ELSE IF select_ok THEN "none" ELSE "ProgrammingError"
          IN  /\ attempts' = Append(attempts, attempt)
              /\ credCalls' = credCalls + attempt.calls
              /\ tryExc' = exc
              /\ IF exc = "none"
                 THEN phase' = "validated" /\ UNCHANGED startupExc
                 ELSE Raise(Reraised(exc))
    /\ UNCHANGED <<instance_name, instanceExists, engine_url, initCalled>>
    /\ UNCHANGED Unserved
    /\ UNCHANGED InitVars
    /\ UNCHANGED ScriptVars

\* The workspace's instance is deleted while the application starts
InstanceDeleted ==
    /\ phase \in {"start", "validate_instance"}
    /\ instanceExists
    /\ instanceExists' = FALSE
    /\ UNCHANGED <<instance_name, engine_url, phase, startupExc, initCalled>>
    /\ UNCHANGED Unserved
    /\ UNCHANGED ConnVars
    /\ UNCHANGED InitVars
    /\ UNCHANGED ScriptVars

\* The id the database gives the first row added to table t when the table's
\* sequence stands at s: Postgres draws it from the sequence, SQLite takes the
\* largest rowid in the table plus one.
FirstNewId(t, s) ==
    IF IsSqlite(engine_url)
    THEN (IF DOMAIN t = {} THEN 0 ELSE CHOOSE x \in DOMAIN t : \A y \in DOMAIN t : y <= x) + 1
    ELSE s + 1

\* Variant: the demo events are added whether or not the table has rows
SeededAlways(t, s) ==
    LET first == FirstNewId(t, s)
    IN  [i \in DOMAIN t \cup (first .. first + Len(demo_events) - 1) |->
            IF i \in DOMAIN t THEN t[i] ELSE demo_events[i - first + 1]]

\* The rows initialize_models leaves in table t, whose sequence stands at s: the
\* three demo events are added if the select finds no row, and nothing otherwise
SeededAt(t, s) ==
    IF DOMAIN t = {}
    THEN LET first == FirstNewId(t, s)
         IN  [i \in first .. first + Len(demo_events) - 1 |-> demo_events[i - first + 1]]
    ELSE t

\* The sequence of the table after initialize_models
SeqAfterSeed(t, s) ==
    IF DOMAIN t = {} /\ ~IsSqlite(engine_url) THEN s + Len(demo_events) ELSE s

\* The rows initialize_models leaves in a table that never had a row
Seeded(t) ==
    IF DOMAIN t = {}
    THEN [i \in 1..Len(demo_events) |-> demo_events[i]]
    ELSE t

\* Variant: lifespan goes on whether validate_db returned or raised
ValidateDbEnded == phase \in {"validated", "failed"}

\* lifespan goes on to its next statement only when validate_db has returned
ValidateDbReturned == phase = "validated"

\* initialize_models: create_all, then in one session select the first event and,
\* when there is none, add the demo events and commit. A database error leaves the
\* table as it was.
initialize_models(database_ok) ==
    /\ initPre' = db
    /\ ninit' = ninit + 1
    /\ IF IsSqlite(engine_url) \/ database_ok
       THEN /\ db' = SeededAt(db, seq)
            /\ seq' = SeqAfterSeed(db, seq)
            /\ pre' = db'
       ELSE UNCHANGED <<db, seq, pre>>

\* lifespan calls initialize_models once validate_db has returned, then yields
InitializeModels ==
    /\ ValidateDbReturned
    /\ initCalled' = TRUE
    /\ \E database_ok \in BOOLEAN :
          /\ initialize_models(database_ok)
          /\ IF IsSqlite(engine_url) \/ database_ok
             THEN phase' = "serving" /\ UNCHANGED startupExc
             ELSE Raise("OperationalError")
    /\ UNCHANGED <<instance_name, instanceExists, engine_url>>
    /\ UNCHANGED <<req, resp, deleted, created, nreq>>
    /\ UNCHANGED ConnVars
    /\ UNCHANGED ScriptVars

-----------------------------------------------------------------------------
(* router.py: the event endpoints *)

HeaderSamples == {NoHeaders, [accept |-> TextHtml]}

EventIds == 1..MaxEventId

EventsPath == api_prefix \o <<"/", "e", "v", "e", "n", "t", "s">>

EventPath(event_id) == EventsPath \o <<"/">> \o IntText(event_id)

\* An exception no handler is registered for: 500 Internal Server Error
ServerError == [kind |-> "error", status |-> 500,
                body |-> [text |-> "Internal Server Error"], committed |-> FALSE]

\* The body fails the payload model's validation: 422
ValidationError == JSONResponse([detail |-> "validation error"], 422)

Committed(response) == [response EXCEPT !.committed = TRUE]

EventNotFound == HTTPException(404, "Event not found")

Max(S) == CHOOSE x \in S : \A y \in S : y <= x

\* Variant: the id is the number of rows plus one
NewIdByCount(t, s) == Cardinality(DOMAIN t) + 1

\* The id the database gives a new row: Postgres draws it from the table's
\* sequence, SQLite takes the largest rowid in the table plus one.
NewId(t, s) == IF IsSqlite(engine_url) THEN Max(DOMAIN t \cup {0}) + 1 ELSE s + 1

\* One request has been handled
Handled(request, response, newdb, newseq, newdeleted, newcreated) ==
    /\ req' = request
    /\ resp' = response
    /\ pre' = db
    /\ db' = newdb
    /\ seq' = newseq
    /\ deleted' = newdeleted
    /\ created' = newcreated
    /\ nreq' = nreq + 1
    /\ UNCHANGED <<instance_name, instanceExists, engine_url, phase, startupExc, initCalled>>
    /\ UNCHANGED ConnVars
    /\ UNCHANGED InitVars
    /\ UNCHANGED ScriptVars

\* lifespan has yielded: the application accepts requests
Yielded == phase = "serving"

Serving == Yielded /\ nreq < MaxRequests

\* Variant: the row is not removed
WithoutNothing(f, id) == f

Without(f, id) == [i \in DOMAIN f \ {id} |-> f[i]]

With(f, id, v) == [i \in DOMAIN f \cup {id} |-> IF i = id THEN v ELSE f[i]]

\* [EventRead.model_validate(e) for e in events]
ListBody(t) == {EventRead(i, t[i]) : i \in DOMAIN t}

list_events ==
    /\ Serving
    /\ \E headers \in HeaderSamples :
          LET request == Request("list_events", "GET", EventsPath, headers, 0, None, None)
              response == IF \A i \in DOMAIN db : EventReadValid(db[i])
                          THEN JSONResponse([events |-> ListBody(db)], 200)
                          ELSE ServerError
          IN  Handled(request, response, db, seq, deleted, created)

\* Bodies posted to create_event
CreatePayloads ==
    {[title |-> "Jazz Night",
      short_description |-> "Live jazz.",
      detailed_description |-> "An evening of live jazz.",
      city |-> "Paris",
      days_of_week |-> <<"Friday", "Saturday">>,
      cost_usd |-> cost,
      picture_url |-> url] :
        cost \in {25, -1},
        url \in {Url("HTTP", "Example.COM", ""),
                 Url("https", "example.com", "/jazz.png"),
                 Url("ftp", "example.com", "/jazz.png")}}

\* The row create_event builds from a valid payload
CreatedEvent(payload) ==
    Event(payload.title, payload.short_description, payload.detailed_description,
          payload.city, payload.days_of_week, payload.cost_usd,
          HttpUrlStr(payload.picture_url))

create_event ==
    /\ Serving
    /\ \E headers \in HeaderSamples, payload \in CreatePayloads :
          LET request == Request("create_event", "POST", EventsPath, headers, 0,
                                 Some(payload), None)
              id == NewId(db, seq)
              event == CreatedEvent(payload)
          IN  IF ~HttpUrlValid(payload.picture_url)
              THEN Handled(request, ValidationError, db, seq, deleted, created)
              ELSE Handled(request,
                           Committed(JSONResponse(EventRead(id, event), 200)),
                           With(db, id, event),
                           IF IsSqlite(engine_url) THEN seq ELSE id,
                           deleted \ {id},
                           With(created, id, payload))

get_event ==
    /\ Serving
    /\ \E headers \in HeaderSamples, event_id \in EventIds :
          LET found == event_id \in DOMAIN db
              request == Request("get_event", "GET", EventPath(event_id), headers,
                                 event_id, None,
                                 IF found THEN None ELSE Some(EventNotFound))
              response == IF ~found
                          THEN http_exception_handler(request, EventNotFound)
                          ELSE IF EventReadValid(db[event_id])
                          THEN JSONResponse(EventRead(event_id, db[event_id]), 200)
                          ELSE ServerError
          IN  Handled(request, response, db, seq, deleted, created)

\* Values a body put to update_event gives a field
UpdateValues(f) ==
    CASE f = "title" -> {"Jazz Brunch"}
      [] f = "short_description" -> {"Brunch with jazz."}
      [] f = "detailed_description" -> {"A late brunch with live jazz."}
      [] f = "city" -> {"Berlin"}
      [] f = "days_of_week" -> {<<"Sunday">>}
      [] f = "cost_usd" -> {15, -5}
      [] f = "picture_url" -> {Url("https", "Example.COM", ""), Url("", "", "/jazz.png")}

\* The sets of fields such a body sets
UpdateFieldSets ==
    {{}} \cup {{f} : f \in Fields}
         \cup {{"city", "days_of_week"}}

\* The fields such a body may give as null: a NOT NULL column and the nullable one
NullSamples == {"title", "days_of_week"}

\* What a body can give the fields of S: for each, a value or (for some) null
RECURSIVE Assignments(_)
Assignments(S) ==
    IF S = {} THEN {EmptyTable}
    ELSE LET f == CHOOSE g \in S : TRUE
         IN  {With(a, f, x) : a \in Assignments(S \ {f}),
                              x \in (IF f \in NullSamples THEN {None} ELSE {})
                                       \cup {Some(v) : v \in UpdateValues(f)}}

\* EventUpdate: every field defaults to None; fields_set are the fields the body gave
EventUpdate(S, a) ==
    [fields_set |-> S, values |-> [f \in Fields |-> IF f \in S THEN a[f] ELSE None]]

UpdatePayloads ==
    UNION {{EventUpdate(S, a) : a \in Assignments(S)} : S \in UpdateFieldSets}

EventUpdateValid(payload) ==
    payload.values.picture_url.some => HttpUrlValid(payload.values.picture_url.v)

\* payload.model_dump(exclude_unset=True), with a given picture_url turned into text
update_data(payload) ==
    [f \in payload.fields_set |->
        IF f = "picture_url" /\ payload.values[f].some
        THEN Some(HttpUrlStr(payload.values[f].v))
        ELSE payload.values[f]]

\* for field, value in update_data.items(): setattr(event, field, value)
SetAttrs(event, data) ==
    [f \in Fields |-> IF f \in DOMAIN data THEN data[f] ELSE event[f]]

\* The database accepts the row iff no NOT NULL column holds None
CommitOk(event) == \A f \in NotNull : event[f].some

update_event ==
    /\ Serving
    /\ \E headers \in HeaderSamples, event_id \in EventIds, payload \in UpdatePayloads :
          LET found == event_id \in DOMAIN db
              valid == EventUpdateValid(payload)
              request == Request("update_event", "PUT", EventPath(event_id), headers,
                                 event_id, Some(payload),
                                 IF valid /\ ~found THEN Some(EventNotFound) ELSE None)
              event == SetAttrs(db[event_id], update_data(payload))
          IN  IF ~valid
              THEN Handled(request, ValidationError, db, seq, deleted, created)
              ELSE IF ~found
              THEN Handled(request, http_exception_handler(request, EventNotFound),
                           db, seq, deleted, created)
              ELSE IF ~CommitOk(event)
              THEN Handled(request, ServerError, db, seq, deleted, created)
              ELSE Handled(request,
                           IF EventReadValid(event)
                           THEN Committed(JSONResponse(EventRead(event_id, event), 200))
                           ELSE Committed(ServerError),
                           With(db, event_id, event), seq, deleted,
                           Without(created, event_id))

\* Variant: a delete of a missing event succeeds like any other
delete_event_idempotent ==
    /\ Serving
    /\ \E headers \in HeaderSamples, event_id \in EventIds :
          LET request == Request("delete_event", "DELETE", EventPath(event_id), headers,
                                 event_id, None, None)
          IN  Handled(request,
                      Committed(JSONResponse(
                          [ok |-> TRUE,
                           message |-> <<"Event ", event_id, " deleted successfully">>],
                          200)),
                      [i \in DOMAIN db \ {event_id} |-> db[i]], seq,
                      deleted \cup {event_id},
                      [i \in DOMAIN created \ {event_id} |-> created[i]])

delete_event ==
    /\ Serving
    /\ \E headers \in HeaderSamples, event_id \in EventIds :
          LET found == event_id \in DOMAIN db
              request == Request("delete_event", "DELETE", EventPath(event_id), headers,
                                 event_id, None,
                                 IF found THEN None ELSE Some(EventNotFound))
          IN  IF ~found
              THEN Handled(request, http_exception_handler(request, EventNotFound),
                           db, seq, deleted, created)
              ELSE Handled(request,
                           Committed(JSONResponse(
                               [ok |-> TRUE,
                                message |-> <<"Event ", event_id, " deleted successfully">>],
                               200)),
                           Without(db, event_id), seq, deleted \cup {event_id},
                           Without(created, event_id))

-----------------------------------------------------------------------------
(* app.py: requests no API route matches reach the static files mounted at "/" *)

PathSamples ==
    { <<"/", "a", "b", "o", "u", "t">>,
      <<"/", "m", "i", "s", "s", "i", "n", "g", ".", "j", "s">>,
      <<"/", "v", "1", ".", "2", "/", "d", "o", "c", "s">>,
      <<"/", "a", "p", "i", "/", "n", "o", "n", "e">> }

\* The mount answers a missing file with 404, and any method but GET and HEAD with 405
StaticMiss(method) ==
    IF method \in {"GET", "HEAD"}
    THEN HTTPException(404, "Not Found")
    ELSE HTTPException(405, "Method Not Allowed")

unmatched_route ==
    /\ Serving
    /\ \E headers \in HeaderSamples, path \in PathSamples, method \in {"GET", "POST"} :
          LET exc == StaticMiss(method)
              request == Request("unmatched", method, path, headers, 0, None, Some(exc))
          IN  Handled(request, http_exception_handler(request, exc),
                      db, seq, deleted, created)

-----------------------------------------------------------------------------

Next ==
    \/ ValidateDbEngineUrl
    \/ ValidateDbInstance
    \/ ValidateDbConnect
    \/ InstanceDeleted
    \/ InitializeModels
    \/ list_events
    \/ create_event
    \/ get_event
    \/ update_event
    \/ delete_event
    \/ unmatched_route

Spec == Init /\ [][Next]_vars

-----------------------------------------------------------------------------
(* The exception handler on its own, over every short path *)

PathChars == {"/", ".", "a", "p", "i"}

AllPaths ==
    {p \in UNION {[1..n -> PathChars] : n \in 1..MaxPathLen} : p[1] = "/"}

AcceptSamples ==
    {NoHeaders, [accept |-> TextHtml], [accept |-> AppJson],
     [accept |-> AppJson \o <<",">> \o TextHtml \o <<";", "q", "=", "0", ".", "9">>],
     [accept |-> <<"t", "e", "x", "t", "/", "h", "t", "m">>]}

RaisedExceptions ==
    {HTTPException(404, "Not Found"), HTTPException(405, "Method Not Allowed")}

InitHandler ==
    /\ instance_name = "sqlite-memory"
    /\ instanceExists = FALSE
    /\ engine_url = "sqlite"
    /\ phase = "serving"
    /\ startupExc = "none"
    /\ initCalled = TRUE
    /\ db = Seeded(EmptyTable)
    /\ seq = 0
    /\ \E path \in AllPaths, method \in {"GET", "POST"}, headers \in AcceptSamples,
          exc \in RaisedExceptions :
          req = Request("raise", method, path, headers, 0, None, Some(exc))
    /\ resp = NoResp
    /\ pre = db
    /\ deleted = {}
    /\ created = EmptyTable
    /\ nreq = 0
    /\ credCalls = 0
    /\ attempts = <<>>
    /\ tryExc = "none"
    /\ initPre = EmptyTable
    /\ ninit = 0
    /\ script = NoScript
    /\ calls = <<>>

HandleException ==
    /\ Yielded
    /\ nreq = 0
    /\ req.exc.some
    /\ Handled(req, http_exception_handler(req, req.exc.v), db, seq, deleted, created)

NextHandler == HandleException

SpecHandler == InitHandler /\ [][NextHandler]_vars

-----------------------------------------------------------------------------
\* The connection attempts of the two kinds of engine: the Runtime's engine
\* (runtime.py) and the engine get_obo_session builds for a request
\* (dependencies.py).

\* Largest number of connection attempts in a behaviour
MaxAttempts == 3

\* Variant: a failed generate_database_credential is called once more
obo_before_connect_retry(cparams, outcome, ncalls) ==
    IF outcome = "token"
    THEN [cparams |-> [cparams EXCEPT !.password = Some(Token(ncalls + 1))],
          calls |-> 1, raised |-> "none"]
    ELSE [cparams |-> [cparams EXCEPT !.password = Some(Token(ncalls + 2))],
          calls |-> 2, raised |-> "none"]

\* get_obo_session._before_connect, after ncalls earlier credential calls
obo_before_connect(cparams, outcome, ncalls) ==
    IF outcome = "token"
    THEN [cparams |-> [cparams EXCEPT !.password = Some(Token(ncalls + 1))],
          calls |-> 1, raised |-> "none"]
    ELSE [cparams |-> cparams, calls |-> 1, raised |-> outcome]

\* The engine of get_obo_session connects, as the user named in the forwarded token
OboAttempt(outcome, connect_ok, ncalls) ==
    LET url == PostgresUrl("user@example.com", read_write_dns)
    IN  Attempt("obo", url, outcome,
                obo_before_connect(ConnectParams(url), outcome, ncalls),
                connect_ok, ncalls)

\* A process whose Runtime has computed engine_url and has not connected yet
InitConnect ==
    /\ instance_name \in InstanceNames
    /\ instanceExists = ~IsSqlite(EngineUrlFor(instance_name))
    /\ engine_url = EngineUrlFor(instance_name)
    /\ phase = "start"
    /\ startupExc = "none"
    /\ initCalled = FALSE
    /\ db = EmptyTable
    /\ seq = 0
    /\ req = NoReq
    /\ resp = NoResp
    /\ pre = EmptyTable
    /\ deleted = {}
    /\ created = EmptyTable
    /\ nreq = 0
    /\ credCalls = 0
    /\ attempts = <<>>
    /\ tryExc = "none"
    /\ initPre = EmptyTable
    /\ ninit = 0
    /\ script = NoScript
    /\ calls = <<>>

Connected(attempt) ==
    /\ attempts' = Append(attempts, attempt)
    /\ credCalls' = credCalls + attempt.calls
    /\ UNCHANGED <<instance_name, instanceExists, engine_url, phase, startupExc,
                   initCalled, tryExc>>
    /\ UNCHANGED Unserved
    /\ UNCHANGED InitVars
    /\ UNCHANGED ScriptVars

\* The pool of the Runtime's engine opens a connection; the StaticPool of the
\* SQLite engine opens one connection only
runtime_connect ==
    /\ Len(attempts) < MaxAttempts
    /\ IsSqlite(engine_url) => attempts = <<>>
    /\ \E outcome \in CredentialOutcomes, connect_ok \in BOOLEAN :
          Connected(RuntimeAttempt(outcome, connect_ok, credCalls))

\* get_obo_session with a forwarded token and a Postgres URL: the engine it
\* created for the request opens a connection
obo_connect ==
    /\ Len(attempts) < MaxAttempts
    /\ ~IsSqlite(engine_url)
    /\ \E outcome \in CredentialOutcomes, connect_ok \in BOOLEAN :
          Connected(OboAttempt(outcome, connect_ok, credCalls))

NextConnect == runtime_connect \/ obo_connect

SpecConnect == InitConnect /\ [][NextConnect]_vars

-----------------------------------------------------------------------------
\* Calls of initialize_models in succession, on the tables a database can hold
\* when a process starts.

\* Largest number of calls of initialize_models in a behaviour
MaxInitCalls == 2

\* Largest id of a row a table holds at the start
MaxStoredId == 4

\* The ids of the rows a table holds at the start
StoredIds == 1..MaxStoredId

\* The row stored under an id at the start
StoredRow(i) == IF i <= Len(demo_events) THEN demo_events[i] ELSE EarlierRow

\* A process whose validate_db has returned, on any stored table; the sequence of
\* a Postgres table is at least the largest id given so far
InitSeed ==
    /\ instance_name \in InstanceNames
    /\ instanceExists = ~IsSqlite(EngineUrlFor(instance_name))
    /\ engine_url = EngineUrlFor(instance_name)
    /\ phase = "validated"
    /\ startupExc = "none"
    /\ initCalled = FALSE
    /\ \E ids \in SUBSET StoredIds :
          /\ db = [i \in ids |-> StoredRow(i)]
          /\ seq \in (IF IsSqlite(EngineUrlFor(instance_name)) THEN {0}
                      ELSE {n \in 0..MaxStoredId : \A i \in ids : i <= n})
    /\ req = NoReq
    /\ resp = NoResp
    /\ pre = db
    /\ deleted = {}
    /\ created = EmptyTable
    /\ nreq = 0
    /\ credCalls = 0
    /\ attempts = <<>>
    /\ tryExc = "none"
    /\ initPre = EmptyTable
    /\ ninit = 0
    /\ script = NoScript
    /\ calls = <<>>

\* A caller other than lifespan calls initialize_models and goes on when it returns
CallInitializeModels ==
    /\ phase = "validated"
    /\ ninit < MaxInitCalls
    /\ initCalled' = TRUE
    /\ \E database_ok \in BOOLEAN :
          /\ initialize_models(database_ok)
          /\ IF IsSqlite(engine_url) \/ database_ok
             THEN UNCHANGED <<phase, startupExc>>
             ELSE Raise("OperationalError")
    /\ UNCHANGED <<instance_name, instanceExists, engine_url>>
    /\ UNCHANGED <<req, resp, deleted, created, nreq>>
    /\ UNCHANGED ConnVars
    /\ UNCHANGED ScriptVars

NextSeed == CallInitializeModels

SpecSeed == InitSeed /\ [][NextSeed]_vars

-----------------------------------------------------------------------------
\* The external calls of the components around the runtime: the route handlers,
\* the static files, the listing scripts and the grant scripts. One behaviour
\* follows one run of one component.

\* Largest number of tables list_db_schema finds in the schema
MaxTables == 2

TableName(i) ==
    CASE i = 1 -> "events"
      [] i = 2 -> "alembic_version"
      [] OTHER -> "users"

ExternalCall(call, arg) == [call |-> call, arg |-> arg]

\* list_db_schema: the calls made for each table of the schema, in order
RECURSIVE TableCalls(_)
TableCalls(n) ==
    IF n = 0 THEN <<>>
    ELSE TableCalls(n - 1) \o
         << ExternalCall("inspector.get_columns", TableName(n)),
            ExternalCall("inspector.get_pk_constraint", TableName(n)),
            ExternalCall("inspector.get_foreign_keys", TableName(n)),
            ExternalCall("inspector.get_indexes", TableName(n)),
            ExternalCall("session.scalar", TableName(n)) >>

\* The components that make their external calls one after the other and stop
\* at the first that fails
LinearComponents ==
    {"list_events", "create_event", "get_event", "update_event", "delete_event",
     "static", "list_db_records", "list_db_schema", "verify_active_db",
     "test_db_connection"}

\* The external calls a component makes when none fails, in order
ExternalCalls(component, ntables) ==
    LET session == ExternalCall("get_database_instance", "lpt-db")
    IN  CASE component = "list_events" ->
                <<session, ExternalCall("session.exec", "select(Event)")>>
          [] component = "create_event" ->
                <<session, ExternalCall("session.commit", "event"),
                  ExternalCall("session.refresh", "event")>>
          [] component = "get_event" ->
                <<session, ExternalCall("session.get", "event_id")>>
          [] component = "update_event" ->
                <<session, ExternalCall("session.get", "event_id"),
                  ExternalCall("session.commit", "event"),
                  ExternalCall("session.refresh", "event")>>
          [] component = "delete_event" ->
                <<session, ExternalCall("session.get", "event_id"),
                  ExternalCall("session.commit", "event")>>
          [] component = "static" ->
                <<ExternalCall("open", "assets/app.js")>>
          [] component = "list_db_records" ->
                <<ExternalCall("session.exec", "select(Event)")>>
          [] component = "list_db_schema" ->
                <<ExternalCall("inspector.get_schema_names", ""),
                  ExternalCall("inspector.get_table_names", "public")>>
                \o TableCalls(ntables)
          [] component = "verify_active_db" ->
                <<ExternalCall("get_database_instance", "lpt-db")>>
          [] OTHER ->
                <<ExternalCall("rt.validate_db", ""),
                  ExternalCall("rt.initialize_models", "")>>

\* What a call of the SDK or of the database can do: return or raise
CallOutcomes == {"ok", "PermissionDenied", "OperationalError"}

\* What requests.patch can do: answer with a status code or raise
PatchOutcomes == {"200", "404", "403", "ConnectionError"}

Failed(c) == c.outcome \notin {"ok", "200"}

\* grant_db_access: the endpoint of the first PATCH
url == "/api/2.0/postgres-instances/uid"

\* Variant: the second PATCH goes to the endpoint of the first
alt_url_same == url

\* grant_db_access: the endpoint of the PATCH made after a 404
alt_url == "/api/2.0/database-instances/uid"

\* grant_db_permissions: the privileges of the first and of the second grants.update
FirstPrivileges == "USAGE,CREATE"

SecondPrivileges == "ALL_PRIVILEGES"

InitScripts ==
    /\ instance_name = "lpt-db"
    /\ instanceExists = TRUE
    /\ engine_url = EngineUrlFor(instance_name)
    /\ phase = "start"
    /\ startupExc = "none"
    /\ initCalled = FALSE
    /\ db = EmptyTable
    /\ seq = 0
    /\ req = NoReq
    /\ resp = NoResp
    /\ pre = EmptyTable
    /\ deleted = {}
    /\ created = EmptyTable
    /\ nreq = 0
    /\ credCalls = 0
    /\ attempts = <<>>
    /\ tryExc = "none"
    /\ initPre = EmptyTable
    /\ ninit = 0
    /\ \E component \in LinearComponents \cup {"grant_db_access", "grant_db_permissions"} :
       \E ntables \in (IF component = "list_db_schema" THEN 0..MaxTables ELSE {0}) :
          script = [component |-> component, pc |-> 1, status |-> "running",
                    ntables |-> ntables]
    /\ calls = <<>>

\* The component makes a call with an outcome and goes on, returns or stops
Called_(call, arg, outcome, pc, status) ==
    /\ calls' = Append(calls, [component |-> script.component, call |-> call,
                                arg |-> arg, outcome |-> outcome])
    /\ script' = [script EXCEPT !.pc = pc, !.status = status]
    /\ UNCHANGED <<instance_name, instanceExists, engine_url, phase, startupExc,
                   initCalled>>
    /\ UNCHANGED Unserved
    /\ UNCHANGED ConnVars
    /\ UNCHANGED InitVars

\* A route handler, the static files or a listing script makes its next call; an
\* exception ends the run (a 500 response, or the except clause of the script)
LinearStep ==
    /\ script.component \in LinearComponents
    /\ script.status = "running"
    /\ LET list == ExternalCalls(script.component, script.ntables)
       IN  \E outcome \in CallOutcomes :
              Called_(list[script.pc].call, list[script.pc].arg, outcome,
                      script.pc + 1,
                      IF outcome # "ok" THEN "raised"
                      ELSE IF script.pc = Len(list) THEN "returned" ELSE "running")

\* grant_db_access and grant_db_permissions: w.database.get_database_instance
GrantGetInstance ==
    /\ script.component \in {"grant_db_access", "grant_db_permissions"}
    /\ script.status = "running"
    /\ script.pc = 1
    /\ \E outcome \in CallOutcomes :
          Called_("get_database_instance", "LPT-LKB-2", outcome, 2,
                  IF outcome = "ok" THEN "running" ELSE "raised")

\* grant_db_access: requests.patch(url, ...)
GrantAccessPatch ==
    /\ script.component = "grant_db_access"
    /\ script.status = "running"
    /\ script.pc = 2
    /\ \E outcome \in PatchOutcomes :
          Called_("requests.patch", url, outcome, 3,
                  CASE outcome = "404" -> "running"
                    [] outcome = "ConnectionError" -> "raised"
                    [] OTHER -> "returned")

\* grant_db_access: elif response.status_code == 404: requests.patch(alt_url, ...)
GrantAccessPatchAlt ==
    /\ script.component = "grant_db_access"
    /\ script.status = "running"
    /\ script.pc = 3
    /\ \E outcome \in PatchOutcomes :
          Called_("requests.patch", alt_url, outcome, 4,
                  IF outcome = "ConnectionError" THEN "raised" ELSE "returned")

\* grant_db_permissions: w.grants.update(... add=[USAGE, CREATE])
GrantPermissionsUpdate ==
    /\ script.component = "grant_db_permissions"
    /\ script.status = "running"
    /\ script.pc = 2
    /\ \E outcome \in CallOutcomes :
          Called_("w.grants.update", FirstPrivileges, outcome, 3,
                  IF outcome = "ok" THEN "returned" ELSE "running")

\* grant_db_permissions: except Exception: w.grants.update(... add=[ALL_PRIVILEGES])
GrantPermissionsUpdateAll ==
    /\ script.component = "grant_db_permissions"
    /\ script.status = "running"
    /\ script.pc = 3
    /\ \E outcome \in CallOutcomes :
          Called_("w.grants.update", SecondPrivileges, outcome, 4, "returned")

NextScripts ==
    \/ LinearStep
    \/ GrantGetInstance
    \/ GrantAccessPatch
    \/ GrantAccessPatchAlt
    \/ GrantPermissionsUpdate
    \/ GrantPermissionsUpdateAll

SpecScripts == InitScripts /\ [][NextScripts]_vars

-----------------------------------------------------------------------------
(* Properties of the exception handler *)

\* The handler has answered the request held in req
Answered == nreq > 0 /\ req.exc.some

PathStartsWithApi ==
    /\ Len(req.path) >= 4
    /\ req.path[1] = "/" /\ req.path[2] = "a" /\ req.path[3] = "p" /\ req.path[4] = "i"

AcceptsHtml ==
    /\ "accept" \in DOMAIN req.headers
    /\ \E k \in 0..(Len(req.headers.accept) - 9) :
          \A j \in 1..9 : req.headers.accept[k + j] = TextHtml[j]

\* No dot after the last slash of the path
NoDotInLastSegment ==
    \A i \in 1..Len(req.path) :
        req.path[i] = "." => \E j \in (i + 1)..Len(req.path) : req.path[j] = "/"

\* The path ends with a file extension: a dot, then one or more characters, none a slash
EndsWithExtension ==
    \E i \in 1..(Len(req.path) - 1) :
        /\ req.path[i] = "."
        /\ \A j \in i..Len(req.path) : req.path[j] # "/"

ServesIndex == resp.kind = "file" /\ resp.body = [file |-> IndexHtml]

Json404 == resp.kind = "json" /\ resp.status = 404

\* C1: a 404 on a GET that accepts text/html, for a path outside the API prefix
\* whose last segment has no dot, is answered with the SPA's index.html.
C1_SpaFallback ==
    (/\ Answered
     /\ req.exc.v.status_code = 404
     /\ ~PathStartsWithApi
     /\ req.method = "GET"
     /\ AcceptsHtml
     /\ NoDotInLastSegment)
    => ServesIndex

C1_Witness ==
    /\ Answered
    /\ req.exc.v.status_code = 404
    /\ req.method = "GET"
    /\ AcceptsHtml
    /\ ~PathStartsWithApi
    /\ NoDotInLastSegment
    /\ \E i \in 1..Len(req.path) : req.path[i] = "."
    /\ ServesIndex

\* C2: a 404 on a path under the API prefix is answered with a JSON 404, never
\* with index.html, whatever the method and the Accept header; the 404s of
\* get_event, update_event and delete_event for a missing event are such 404s.
C2_Api404IsJson ==
    /\ (Answered /\ req.exc.v.status_code = 404 /\ PathStartsWithApi)
          => (Json404 /\ ~ServesIndex)
    /\ (/\ nreq > 0
        /\ req.op \in {"get_event", "update_event", "delete_event"}
        /\ resp.status = 404)
          => (Answered /\ PathStartsWithApi /\ Json404)

C2_Witness ==
    /\ Answered
    /\ req.op = "get_event"
    /\ req.method = "GET"
    /\ AcceptsHtml
    /\ req.event_id \notin DOMAIN db
    /\ Json404

\* C3: a 404 on a path that ends with a file extension is answered with a JSON
\* 404, never with index.html, also for a GET that accepts text/html.
C3_Asset404IsJson ==
    (Answered /\ req.exc.v.status_code = 404 /\ EndsWithExtension)
    => (Json404 /\ ~ServesIndex)

C3_Witness ==
    /\ Answered
    /\ req.exc.v.status_code = 404
    /\ EndsWithExtension
    /\ ~PathStartsWithApi
    /\ req.method = "GET"
    /\ AcceptsHtml
    /\ Json404

-----------------------------------------------------------------------------
(* Properties of the event endpoints *)

\* The request held in req reached the route handler named op
Called(op) ==
    /\ nreq > 0
    /\ req.op = op
    /\ op = "create_event" => HttpUrlValid(req.payload.v.picture_url)
    /\ op = "update_event" => EventUpdateValid(req.payload.v)

\* C4: get_event, update_event and delete_event for an id with no stored event
\* answer 404 "Event not found", commit nothing and leave every stored event as it was.
C4_MissingEvent ==
    \A op \in {"get_event", "update_event", "delete_event"} :
        (Called(op) /\ req.event_id \notin DOMAIN pre)
        => /\ resp.status = 404
           /\ resp.kind = "json"
           /\ resp.body = [detail |-> "Event not found"]
           /\ ~resp.committed
           /\ db = pre

C4_Witness ==
    /\ Called("update_event")
    /\ req.payload.v.fields_set # {}
    /\ req.event_id \notin DOMAIN pre
    /\ DOMAIN pre # {}
    /\ resp.status = 404
    /\ db = pre

\* The value update_event is to store for a field the payload gives
PayloadValue(payload, f) ==
    IF f = "picture_url" /\ payload.values[f].some
    THEN Some([scheme |-> Lower(payload.values[f].v.scheme),
               host |-> Lower(payload.values[f].v.host),
               path |-> IF payload.values[f].v.path = "" THEN "/"
                        ELSE payload.values[f].v.path])
    ELSE payload.values[f]

\* C5: update_event on a stored event changes the fields the payload gives and
\* no other: an absent field keeps its value, a given field takes the payload's
\* value, and the response is the stored event after the update.
C5_PartialUpdate ==
    (Called("update_event") /\ req.event_id \in DOMAIN pre)
    => LET id == req.event_id
           payload == req.payload.v
       IN  /\ id \in DOMAIN db
           /\ \A f \in Fields \ payload.fields_set : db[id][f] = pre[id][f]
           /\ \A f \in payload.fields_set : db[id][f] = PayloadValue(payload, f)
           /\ resp.status = 200
           /\ resp.kind = "json"
           /\ resp.body.id = id
           /\ \A f \in Fields : Some(resp.body[f]) = db[id][f]

\* C6: create_event stores exactly one new event, under an id no stored event
\* has; get_event with that id, while no update or delete touched it, returns
\* the payload's fields, picture_url being the text form of the payload's URL.
C6_CreateThenGet ==
    /\ Called("create_event")
        => /\ resp.status = 200
           /\ resp.body.id \notin DOMAIN pre
           /\ DOMAIN db = DOMAIN pre \cup {resp.body.id}
           /\ \A i \in DOMAIN pre : db[i] = pre[i]
           /\ resp.body.id \in DOMAIN created
    /\ (Called("get_event") /\ req.event_id \in DOMAIN created)
        => LET payload == created[req.event_id]
           IN  /\ resp.status = 200
               /\ resp.body.id = req.event_id
               /\ resp.body.title = payload.title
               /\ resp.body.short_description = payload.short_description
               /\ resp.body.detailed_description = payload.detailed_description
               /\ resp.body.city = payload.city
               /\ resp.body.days_of_week = payload.days_of_week
               /\ resp.body.cost_usd = payload.cost_usd
               /\ resp.body.picture_url.scheme = Lower(payload.picture_url.scheme)
               /\ resp.body.picture_url.host = Lower(payload.picture_url.host)
               /\ resp.body.picture_url.path =
                      (IF payload.picture_url.path = "" THEN "/"
                       ELSE payload.picture_url.path)

C6_Witness ==
    /\ Called("get_event")
    /\ req.event_id \in DOMAIN created
    /\ resp.status = 200
    /\ resp.body.picture_url # created[req.event_id].picture_url

\* C7: once delete_event has succeeded for an id the event is not stored:
\* list_events does not return it, and get_event, update_event and delete_event
\* for that id answer 404, until an event is created under that id again.
C7_DeletedStaysGone ==
    /\ (Called("delete_event") /\ resp.status = 200)
        => (req.event_id \in deleted /\ req.event_id \in DOMAIN pre)
    /\ \A id \in deleted : id \notin DOMAIN db
    /\ (Called("list_events") /\ resp.status = 200)
        => \A e \in resp.body.events : e.id \notin deleted
    /\ \A op \in {"get_event", "update_event", "delete_event"} :
          (/\ Called(op)
           /\ req.event_id \in deleted
           /\ ~(op = "delete_event" /\ req.event_id \in DOMAIN pre))
          => resp.status = 404

C7_Witness ==
    /\ Called("get_event")
    /\ req.event_id \in deleted
    /\ resp.status = 404
    /\ DOMAIN db # {}

\* C8: every stored event has a cost that is not negative.
C8_CostNonNegative ==
    \A id \in DOMAIN db : db[id].cost_usd.some => db[id].cost_usd.v >= 0

-----------------------------------------------------------------------------
(* Properties of the startup *)

\* The exceptions validate_db raises or lets through
ValidateDbExceptions == {"NotFound", "ValueError", "ConnectionError"}

\* C9: validate_db has returned before initialize_models starts, and both have
\* returned before a request is handled; if validate_db raises, initialize_models
\* is not called and no request is ever handled.
C9_StartupOrder ==
    /\ phase \in {"start", "validate_instance", "validate_connect"}
        => (~initCalled /\ nreq = 0)
    /\ initCalled => (engine_url # "unset" /\ startupExc \notin ValidateDbExceptions)
    /\ nreq > 0 => (phase = "serving" /\ initCalled /\ startupExc = "none")
    /\ nreq = 1 => DOMAIN pre # {}
    /\ startupExc \in ValidateDbExceptions
        => (phase = "failed" /\ ~initCalled /\ nreq = 0 /\ req.op = "none")

C9_Witness ==
    /\ phase = "serving"
    /\ ~IsSqlite(engine_url)
    /\ initCalled
    /\ nreq > 0

\* C10: validate_db on a Runtime with no cached property raises ValueError when
\* the workspace has no instance of the configured name.
C10_MissingInstanceValueError ==
    (/\ phase = "failed"
     /\ startupExc \in ValidateDbExceptions
     /\ ~IsSqlite(EngineUrlFor(instance_name))
     /\ ~instanceExists)
    => startupExc = "ValueError"

\* The exception validate_db let out of its connection step ("none" if it returned)
EscapedFromConnect ==
    IF Len(attempts) > 0 /\ startupExc \in ValidateDbExceptions \cup {tryExc}
    THEN startupExc
    ELSE "none"

\* C11: when the instance exists and anything raises while validate_db opens the
\* session or executes SELECT 1 (credential generation in _before_connect, the
\* driver's connect, the statement), validate_db raises ConnectionError, and it
\* lets no exception of another type out of that step.
C11_ConnectFailureIsConnectionError ==
    /\ tryExc # "none"
        => (phase = "failed" /\ startupExc = "ConnectionError" /\ ~initCalled)
    /\ EscapedFromConnect \in {"none", "ConnectionError"}
    /\ (Len(attempts) > 0 /\ attempts[Len(attempts)].raised # "none")
        => tryExc = attempts[Len(attempts)].raised

C11_Witness ==
    /\ phase = "failed"
    /\ Len(attempts) = 1
    /\ attempts[1].raised = "PermissionDenied"
    /\ attempts[1].calls = 1
    /\ tryExc = "PermissionDenied"
    /\ startupExc = "ConnectionError"

PostgresAttempts == {i \in 1..Len(attempts) : attempts[i].url.prefix # "sqlite"}

\* The credential calls made during attempt i: their numbers in the order of all calls
CallsOf(i) == attempts[i].first_call .. (attempts[i].first_call + attempts[i].calls - 1)

C14_CredentialFailurePropagates ==
    \A i \in PostgresAttempts :
        LET a == attempts[i]
        IN  a.credential \in CredentialOutcomes \ {"token"}
                => (/\ a.calls = 1
                    /\ a.cparams.password = None
                    /\ a.raised = a.credential
                    /\ ~a.opened)

C14_Witness ==
    /\ Len(attempts) = 2
    /\ attempts[1].engine = "obo" /\ attempts[1].raised = "InternalError"
    /\ attempts[2].engine = "runtime" /\ attempts[2].raised = "PermissionDenied"
    /\ credCalls = 2

DemoRows == {demo_events[k] : k \in 1..Len(demo_events)}

\* C12: a call of initialize_models that returns has added the three demo events,
\* and only them, if the table was empty when it was entered, and has left a
\* non-empty table as it was; a second call in succession leaves the table as the
\* first call left it; a call that raises leaves the table as it was.
C12_InitializeModelsIdempotent ==
    ninit >= 1 =>
        /\ (phase # "failed" /\ DOMAIN initPre = {})
            => (/\ Cardinality(DOMAIN db) = Len(demo_events)
                /\ {db[i] : i \in DOMAIN db} = DemoRows)
        /\ (phase # "failed" /\ DOMAIN initPre # {}) => db = initPre
        /\ phase = "failed" => db = initPre
        /\ ninit >= 2 => db = initPre

C12_Witness ==
    /\ ninit = 2
    /\ phase = "validated"
    /\ DOMAIN db = 5..7
    /\ db = initPre

\* Call j is a further attempt of the failed call i: the same function is called again
SecondAttempt(i, j) ==
    /\ i < j
    /\ Failed(calls[i])
    /\ calls[j].call = calls[i].call

CallPairs == {p \in (1..Len(calls)) \X (1..Len(calls)) : SecondAttempt(p[1], p[2])}

\* C15 as stated: after an external call of a component has failed, the component
\* never calls the same function again.
C15_NoSecondAttempt == CallPairs = {}

\* C15: after an external call has failed, a route handler, the static files and
\* the listing scripts make no further call. Only the two grant scripts make a
\* further attempt, and they make exactly one, with other arguments than the
\* failed call: grant_db_access PATCHes the alternative endpoint after a 404, and
\* grant_db_permissions grants ALL_PRIVILEGES after grants.update has raised. No
\* component repeats a failed call with the same arguments.
C15_OneAlternativeAttempt ==
    /\ \A p \in CallPairs :
          /\ script.component \in {"grant_db_access", "grant_db_permissions"}
          /\ calls[p[2]].arg # calls[p[1]].arg
          /\ p[2] = p[1] + 1
          /\ p[2] = Len(calls)
          /\ script.status # "running"
          /\ script.component = "grant_db_access" => calls[p[1]].outcome = "404"
    /\ Cardinality(CallPairs) <= 1
    /\ \A i \in 1..Len(calls) :
          (Failed(calls[i]) /\ i < Len(calls)) => <<i, i + 1>> \in CallPairs

C15_Witness ==
    /\ script.component = "grant_db_permissions"
    /\ script.status = "returned"
    /\ Len(calls) = 3
    /\ calls[2].outcome = "PermissionDenied"
    /\ calls[3].arg = SecondPrivileges
    /\ calls[3].outcome = "PermissionDenied"

====
